---- MODULE Spec2Model ----
(***************************************************************************)
(* Model of scripts/fetch_news.py: relevance scoring, classification,      *)
(* two-pass deduplication and output partitioning of news articles.        *)
(*                                                                         *)
(* Text (titles, summaries, keywords) is a sequence of one-character       *)
(* strings, so that lower-casing, substring containment and the \w+        *)
(* tokenisation are computed as Python computes them.  A published         *)
(* timestamp is an integer number of seconds; the integers order the       *)
(* timestamps as their ISO-8601 strings are ordered, and the codes in      *)
(* BadStamps stand for strings that dateutil cannot parse.                 *)
(***************************************************************************)
EXTENDS Integers, Sequences, FiniteSets, TLC

VARIABLES
    config,            \* main: the loaded configuration
    feeds,             \* what fetch_single_feed returns for each feed, in order
    now,               \* the wall clock, in seconds
    fetched_count,     \* main: feeds processed so far
    all_articles,      \* main: the accumulated / deduplicated articles
    pc,                \* position in main / deduplicate
    articles,          \* deduplicate: its argument
    idx,               \* deduplicate: position of the running for loop
    seen_ids,          \* deduplicate: id -> article kept for it
    unique,            \* deduplicate: pass-1 survivors
    final,             \* deduplicate: pass-2 slots
    title_words_list,  \* deduplicate: token set of each slot
    out                \* build_output_files: the lists handed to write_json

vars == <<config, feeds, now, fetched_count, all_articles, pc, articles, idx,
          seen_ids, unique, final, title_words_list, out>>

----------------------------------------------------------------------------
(* Program constants *)

MAX_ARTICLES_PER_FEED == 30
MAX_ARTICLES_PER_OUTPUT == 100
DELAY_BETWEEN_FEEDS == 1

----------------------------------------------------------------------------
(* Text primitives *)

LowerCase == <<"a","b","c","d","e","f","g","h","i","j","k","l","m",
               "n","o","p","q","r","s","t","u","v","w","x","y","z">>
UpperCase == <<"A","B","C","D","E","F","G","H","I","J","K","L","M",
               "N","O","P","Q","R","S","T","U","V","W","X","Y","Z">>
Digits == {"0","1","2","3","4","5","6","7","8","9"}

Range(s) == {s[i] : i \in DOMAIN s}

\* str.lower() on one character
LowerMap ==
    [c \in Range(UpperCase) |->
        LowerCase[CHOOSE i \in DOMAIN UpperCase : UpperCase[i] = c]]

LowerChar(c) == IF c \in DOMAIN LowerMap THEN LowerMap[c] ELSE c

\* str.lower()
Lower(s) == [i \in 1..Len(s) |-> LowerChar(s[i])]

\* the character class \w
WordChars == Range(LowerCase) \cup Range(UpperCase) \cup Digits \cup {"_"}
IsWordChar(c) == c \in WordChars

\* Python's `needle in hay' on strings
Contains(needle, hay) ==
    \E k \in 0..(Len(hay) - Len(needle)) :
        SubSeq(hay, k + 1, k + Len(needle)) = needle

\* set(re.findall(r"\w+", s)): the maximal runs of word characters
FindAllWords(s) ==
    LET n == Len(s)
        starts == { a \in 1..n : IsWordChar(s[a])
                                 /\ (a = 1 \/ ~IsWordChar(s[a - 1])) }
    IN  { SubSeq(s, a, CHOOSE b \in a..n :
                          /\ (b = n \/ ~IsWordChar(s[b + 1]))
                          /\ \A k \in a..b : IsWordChar(s[k])) :
          a \in starts }

\* words = set(re.findall(r"\w+", article["title"].lower()))
TitleWords(title) == FindAllWords(Lower(title))

----------------------------------------------------------------------------
(* deduplicate *)

\* Similar with the threshold included: similarity >= 0.85
SimilarLoose(words, existing_words) ==
    20 * Cardinality(words \cap existing_words)
        >= 17 * Cardinality(words \cup existing_words)

\* similarity > 0.85, with similarity = len(intersection) / len(union)
Similar(words, existing_words) ==
    LET intersection == words \cap existing_words
        union == words \cup existing_words
    IN  union # {} /\ 20 * Cardinality(intersection) > 17 * Cardinality(union)

\* Pass1Step with a later duplicate of equal score also replacing the kept one
Pass1StepLastWins(st, article) ==
    LET aid == article.id IN
    IF aid \in DOMAIN st.seen_ids
    THEN IF article.relevance_score >= st.seen_ids[aid].relevance_score
         THEN [seen_ids |-> [st.seen_ids EXCEPT ![aid] = article],
               unique   |-> Append(SelectSeq(st.unique, LAMBDA a : a.id # aid),
                                   article)]
         ELSE st
    ELSE [seen_ids |-> (aid :> article) @@ st.seen_ids,
          unique   |-> Append(st.unique, article)]

\* Pass1Step with the replacement written over the kept article in place
Pass1StepInPlace(st, article) ==
    LET aid == article.id IN
    IF aid \in DOMAIN st.seen_ids
    THEN IF article.relevance_score > st.seen_ids[aid].relevance_score
         THEN [seen_ids |-> [st.seen_ids EXCEPT ![aid] = article],
               unique   |-> [u \in DOMAIN st.unique |->
                                IF st.unique[u].id = aid THEN article
                                                         ELSE st.unique[u]]]
         ELSE st
    ELSE [seen_ids |-> (aid :> article) @@ st.seen_ids,
          unique   |-> Append(st.unique, article)]

\* one iteration of the first for loop
Pass1Step(st, article) ==
    LET aid == article.id IN
    IF aid \in DOMAIN st.seen_ids
    THEN IF article.relevance_score > st.seen_ids[aid].relevance_score
         THEN [seen_ids |-> [st.seen_ids EXCEPT ![aid] = article],
               unique   |-> Append(SelectSeq(st.unique, LAMBDA a : a.id # aid),
                                   article)]
         ELSE st
    ELSE [seen_ids |-> (aid :> article) @@ st.seen_ids,
          unique   |-> Append(st.unique, article)]

\* the slots the inner loop compares against: those with at least 3 tokens
\* whose similarity with words exceeds the threshold
Matches(words, twl) ==
    { i \in DOMAIN twl : Cardinality(twl[i]) >= 3 /\ Similar(words, twl[i]) }

\* Pass2Step without the exemption of titles of fewer than 3 tokens
Pass2StepNoExempt(st, article) ==
    LET words == TitleWords(article.title)
        m == { i \in DOMAIN st.title_words_list :
                  Similar(words, st.title_words_list[i]) }
    IN  IF m = {}
        THEN [final |-> Append(st.final, article),
              title_words_list |-> Append(st.title_words_list, words)]
        ELSE LET i == CHOOSE j \in m : \A k \in m : j <= k IN
             IF article.relevance_score > st.final[i].relevance_score
             THEN [final |-> [st.final EXCEPT ![i] = article],
                   title_words_list |->
                       [st.title_words_list EXCEPT ![i] = words]]
             ELSE st

\* Pass2Step with the matching slot always taken over by the new article
Pass2StepAlwaysReplace(st, article) ==
    LET words == TitleWords(article.title)
        appended == [final |-> Append(st.final, article),
                     title_words_list |-> Append(st.title_words_list, words)]
    IN  IF Cardinality(words) < 3
        THEN appended
        ELSE LET m == Matches(words, st.title_words_list) IN
             IF m = {}
             THEN appended
             ELSE LET i == CHOOSE j \in m : \A k \in m : j <= k IN
                  [final |-> [st.final EXCEPT ![i] = article],
                   title_words_list |->
                       [st.title_words_list EXCEPT ![i] = words]]

\* one iteration of the second for loop
Pass2Step(st, article) ==
    LET words == TitleWords(article.title)
        appended == [final |-> Append(st.final, article),
                     title_words_list |-> Append(st.title_words_list, words)]
    IN  IF Cardinality(words) < 3
        THEN appended
        ELSE LET m == Matches(words, st.title_words_list) IN
             IF m = {}
             THEN appended
             ELSE LET i == CHOOSE j \in m : \A k \in m : j <= k IN
                  IF article.relevance_score > st.final[i].relevance_score
                  THEN [final |-> [st.final EXCEPT ![i] = article],
                        title_words_list |->
                            [st.title_words_list EXCEPT ![i] = words]]
                  ELSE st

RECURSIVE Pass1(_, _)
Pass1(st, xs) ==
    IF xs = <<>> THEN st ELSE Pass1(Pass1Step(st, Head(xs)), Tail(xs))

RECURSIVE Pass2(_, _)
Pass2(st, xs) ==
    IF xs = <<>> THEN st ELSE Pass2(Pass2Step(st, Head(xs)), Tail(xs))

EmptyPass1 == [seen_ids |-> <<>>, unique |-> <<>>]
EmptyPass2 == [final |-> <<>>, title_words_list |-> <<>>]

\* the function as a whole
Deduplicate(xs) == Pass2(EmptyPass2, Pass1(EmptyPass1, xs).unique).final

----------------------------------------------------------------------------
(* Scoring and classification *)

\* an empty dict / a dict with no keys
EmptyDict == [k \in {} |-> k]

\* d.get(k, default)
Get(d, k, default) == IF k \in DOMAIN d THEN d[k] ELSE default

\* published strings that date_parser.parse rejects (ValueError)
BadStamps == {0}

\* the score one keyword tier adds: title_weight on a title hit, else
\* summary_weight on a summary hit
RECURSIVE TierScore(_, _, _, _, _)
TierScore(kws, title_lower, summary_lower, title_weight, summary_weight) ==
    IF kws = <<>> THEN 0
    ELSE LET kw_lower == Lower(Head(kws))
             hit == IF Contains(kw_lower, title_lower) THEN title_weight
                    ELSE IF Contains(kw_lower, summary_lower) THEN summary_weight
                    ELSE 0
         IN  hit + TierScore(Tail(kws), title_lower, summary_lower,
                             title_weight, summary_weight)

\* the recency boost; t is datetime.now() in seconds
RecencyBoost(published, t) ==
    IF published \in BadStamps THEN 0
    ELSE LET seconds_ago == t - published IN
         IF seconds_ago < 6 * 3600 THEN 15
         ELSE IF seconds_ago < 12 * 3600 THEN 10
         ELSE IF seconds_ago < 24 * 3600 THEN 5
         ELSE 0

Max(a, b) == IF a > b THEN a ELSE b
Min(a, b) == IF a < b THEN a ELSE b

\* the sum of keyword hits and the recency boost, before floor and cap
RawScore(article, cfg, t) ==
    LET title_lower == Lower(article.title)
        summary_lower == Lower(article.summary)
        relevance == Get(cfg, "relevance_keywords", EmptyDict)
    IN  TierScore(Get(relevance, "high_weight", <<>>),
                  title_lower, summary_lower, 45, 15)
        + TierScore(Get(relevance, "medium_weight", <<>>),
                    title_lower, summary_lower, 24, 8)
        + TierScore(Get(relevance, "low_weight", <<>>),
                    title_lower, summary_lower, 9, 3)
        + RecencyBoost(article.published, t)

\* compute_relevance_score without the cap at 100
compute_relevance_score_nocap(article, cfg, t) ==
    Max(RawScore(article, cfg, t), 10)

compute_relevance_score(article, cfg, t) ==
    Min(Max(RawScore(article, cfg, t), 10), 100)

\* the labels of keyword_map (a dict in insertion order: a sequence of
\* [label, keywords] items) one of whose keywords occurs in the text
MatchLabels(article, keyword_map) ==
    LET text == Lower(article.title \o <<" ">> \o article.summary)
        hits == SelectSeq(keyword_map,
                    LAMBDA e : \E i \in DOMAIN e.keywords :
                                   Contains(Lower(e.keywords[i]), text))
    IN  [i \in DOMAIN hits |-> hits[i].label]

classify_industries(article, cfg) ==
    MatchLabels(article, Get(cfg, "industry_keywords", <<>>))

classify_vendors(article, cfg) ==
    MatchLabels(article, Get(cfg, "vendor_keywords", <<>>))

\* the body of main's `for article in articles' loop
ScoreAndClassify(article, cfg, t) ==
    ("vendors" :> classify_vendors(article, cfg)) @@
    [article EXCEPT !.relevance_score = compute_relevance_score(article, cfg, t),
                    !.industries = classify_industries(article, cfg)]

\* article.pop("vendors", None)
PopVendors(article) == [f \in DOMAIN article \ {"vendors"} |-> article[f]]

----------------------------------------------------------------------------
(* build_output_files *)

\* KeyLess with ties broken by published descending
KeyLessNewestFirst(a, b) ==
    \/ a.relevance_score > b.relevance_score
    \/ a.relevance_score = b.relevance_score /\ a.published > b.published

\* key(a) < key(b) for key = (-relevance_score, published)
KeyLess(a, b) ==
    \/ a.relevance_score > b.relevance_score
    \/ a.relevance_score = b.relevance_score /\ a.published < b.published

\* sorted(s, key=...): a stable sort
SortByKey(s) ==
    LET rank == [i \in DOMAIN s |->
                    1 + Cardinality({ j \in DOMAIN s :
                            \/ KeyLess(s[j], s[i])
                            \/ ~KeyLess(s[i], s[j]) /\ j < i })]
    IN  [r \in 1..Len(s) |-> s[CHOOSE i \in DOMAIN s : rank[i] = r]]

\* s[:n]
Take(s, n) == SubSeq(s, 1, Min(Len(s), n))

InVendor(a, vendor) ==
    a.source_category = vendor \/ vendor \in Range(Get(a, "vendors", <<>>))

InIndustry(a, industry) == industry \in Range(Get(a, "industries", <<>>))

IndustryLabels(cfg) ==
    { e.label : e \in Range(Get(cfg, "industry_keywords", <<>>)) }

\* the lists build_output_files hands to write_json
build_output_files(arts, cfg) ==
    [ main |-> Take(SortByKey(arts), MAX_ARTICLES_PER_OUTPUT),
      industry |-> [ l \in IndustryLabels(cfg) |->
            Take(SortByKey(SelectSeq(arts, LAMBDA a : InIndustry(a, l))),
                 MAX_ARTICLES_PER_OUTPUT) ],
      adobe |-> Take(SortByKey(SelectSeq(arts, LAMBDA a : InVendor(a, "adobe"))),
                     MAX_ARTICLES_PER_OUTPUT),
      salesforce |->
            Take(SortByKey(SelectSeq(arts, LAMBDA a : InVendor(a, "salesforce"))),
                 MAX_ARTICLES_PER_OUTPUT) ]

NoOutput == [main |-> <<>>, industry |-> EmptyDict, adobe |-> <<>>,
             salesforce |-> <<>>]

----------------------------------------------------------------------------
(* Bounds and input pools *)

MaxArticles == 3      \* longest list handed to deduplicate on its own
MaxFeeds == 2         \* most feeds of a small run
MaxOverflow == 3      \* a bulk run has up to this many articles over the cap
ClockStart == 100000  \* the clock when a run starts, in seconds

\* keywords, titles and summaries, character by character
KwAI == <<"A","I">>
KwCrm == <<"c","r","m">>
KwSeo == <<"s","e","o">>
KwAd == <<"a","d">>
KwB2b == <<"b","2","b">>
KwShop == <<"s","h","o","p">>
KwAdobe == <<"a","d","o","b","e">>
KwSalesforce == <<"s","a","l","e","s","f","o","r","c","e">>

TitleAiCrmSeo == <<"A","I"," ","c","r","m"," ","s","e","o">>
TitleAdobeAd == <<"A","d","o","b","e"," ","a","d">>
TitleSalesforceShop ==
    <<"S","a","l","e","s","f","o","r","c","e"," ","s","h","o","p">>
SummaryNone == <<>>
SummaryAiB2b == <<"a","i"," ","b","2","b">>

\* "a b c ..." : the first n letters, separated by blanks
SpacedTitle(n) ==
    [i \in 1..(2 * n - 1) |-> IF i % 2 = 1 THEN LowerCase[(i + 1) \div 2] ELSE " "]

\* "A-B-C-..." : the first n capitals, separated by hyphens
HyphenTitle(n) ==
    [i \in 1..(2 * n - 1) |-> IF i % 2 = 1 THEN UpperCase[(i + 1) \div 2] ELSE "-"]

\* a title of three words and one distinct token
ShortTitle == <<"a","b"," ","A","B","-","a","b">>

DedupTitles == {SpacedTitle(17), HyphenTitle(18), SpacedTitle(20), ShortTitle}

\* the (title, score) pairs of the articles handed to deduplicate
ScoredTitles ==
    { <<SpacedTitle(17), 10>>, <<SpacedTitle(17), 20>>,
      <<HyphenTitle(18), 10>>, <<HyphenTitle(18), 20>>,
      <<SpacedTitle(20), 10>>, <<ShortTitle, 10>> }

\* deduplicate compares ids only for equality: the ids of a list of k
\* articles are taken up to renaming, the first new id being 1, the next 2, ...
IdPatterns(k) ==
    { f \in [1..k -> 1..k] :
        \A i \in 1..k : \E m \in 0..(i - 1) :
            /\ f[i] <= m + 1
            /\ \A j \in 1..(i - 1) : f[j] <= m
            /\ (m = 0 \/ \E j \in 1..(i - 1) : f[j] = m) }

DedupInput(f, ts) ==
    [i \in DOMAIN f |-> [id |-> f[i], title |-> ts[i][1],
                         relevance_score |-> ts[i][2]]]

SeqsUpTo(S, n) == UNION { [1..k -> S] : k \in 0..n }

FullConfig ==
    [relevance_keywords |->
        [high_weight |-> <<KwAI, KwCrm, KwSeo>>,
         medium_weight |-> <<KwAd>>,
         low_weight |-> <<KwB2b>>],
     industry_keywords |->
        <<[label |-> "retail", keywords |-> <<KwShop>>],
          [label |-> "tech", keywords |-> <<KwCrm, KwAI>>]>>,
     vendor_keywords |->
        <<[label |-> "adobe", keywords |-> <<KwAdobe>>],
          [label |-> "salesforce", keywords |-> <<KwSalesforce>>]>>]

\* tiers missing, tiers empty, no relevance_keywords at all
ScoreConfigs ==
    {FullConfig,
     [relevance_keywords |-> [high_weight |-> <<KwAI>>]],
     [relevance_keywords |->
        [high_weight |-> <<>>, medium_weight |-> <<>>, low_weight |-> <<>>]],
     [industry_keywords |-> <<>>]}

Texts == {<<TitleAiCrmSeo, SummaryNone>>, <<TitleAdobeAd, SummaryAiB2b>>,
          <<TitleSalesforceShop, SummaryNone>>,
          <<TitleAiCrmSeo, SummaryAiB2b>>}

\* what normalize_entry returns
RawArticle(id, text, category, published) ==
    [id |-> id, title |-> text[1], summary |-> text[2],
     source_category |-> category, published |-> published,
     industries |-> <<>>, relevance_score |-> 0]

\* unparseable, in the future, and 1 h, 6 h, 12 h, 24 h old at ClockStart
ScoreStamps ==
    BadStamps \cup {ClockStart + 3600, ClockStart - 3600, ClockStart - 6 * 3600,
                    ClockStart - 12 * 3600, ClockStart - 24 * 3600}

ScorePool ==
    { RawArticle(1, x, "martech", p) : x \in Texts, p \in ScoreStamps }

RunPool ==
    { RawArticle(i, x, c, p) :
        i \in {1, 2},
        x \in {<<TitleAiCrmSeo, SummaryNone>>, <<TitleAdobeAd, SummaryAiB2b>>,
               <<TitleSalesforceShop, SummaryNone>>},
        c \in {"martech", "adobe"},
        p \in {ClockStart - 3600, ClockStart - 7 * 3600} }

\* article i of a bulk run: distinct ids, titles of fewer than 3 tokens,
\* scores and timestamps that repeat
BulkArticle(i) ==
    RawArticle(i,
               <<TitleSalesforceShop,
                 IF i % 3 = 0 THEN SummaryAiB2b ELSE SummaryNone>>,
               IF i % 50 = 0 THEN "salesforce" ELSE "adobe",
               ClockStart - (i % 5) * 4 * 3600)

\* n articles as fetched: feeds of MAX_ARTICLES_PER_FEED articles and a rest
BulkFeeds(n) ==
    [f \in 1..((n + MAX_ARTICLES_PER_FEED - 1) \div MAX_ARTICLES_PER_FEED) |->
        [k \in 1..Min(MAX_ARTICLES_PER_FEED, n - (f - 1) * MAX_ARTICLES_PER_FEED) |->
            BulkArticle((f - 1) * MAX_ARTICLES_PER_FEED + k)]]

----------------------------------------------------------------------------
(* The run: main *)

Init ==
    /\ config = FullConfig
    /\ \/ feeds \in [1..MaxFeeds -> SeqsUpTo(RunPool, 1)]
       \/ \E k \in 1..MaxOverflow : feeds = BulkFeeds(MAX_ARTICLES_PER_OUTPUT + k)
    /\ now = ClockStart
    /\ fetched_count = 0
    /\ all_articles = <<>>
    /\ pc = "fetch"
    /\ articles = <<>>
    /\ idx = 1
    /\ seen_ids = <<>>
    /\ unique = <<>>
    /\ final = <<>>
    /\ title_words_list = <<>>
    /\ out = NoOutput

\* one round of main's feed loop: score and classify the fetched articles
ProcessFeed ==
    /\ pc = "fetch"
    /\ fetched_count < Len(feeds)
    /\ LET fetched == feeds[fetched_count + 1] IN
       all_articles' = all_articles \o
            [i \in DOMAIN fetched |-> ScoreAndClassify(fetched[i], config, now)]
    /\ fetched_count' = fetched_count + 1
    /\ now' = now + DELAY_BETWEEN_FEEDS
    /\ UNCHANGED <<config, feeds, pc, articles, idx, seen_ids, unique, final,
                   title_words_list, out>>

\* main calls deduplicate(all_articles)
CallDeduplicate ==
    /\ pc = "fetch"
    /\ fetched_count = Len(feeds)
    /\ articles' = all_articles
    /\ seen_ids' = <<>>
    /\ unique' = <<>>
    /\ idx' = 1
    /\ pc' = "pass1"
    /\ UNCHANGED <<config, feeds, now, fetched_count, all_articles, final,
                   title_words_list, out>>

\* first pass, one article
DedupPass1 ==
    /\ pc = "pass1"
    /\ idx <= Len(articles)
    /\ LET st == Pass1Step([seen_ids |-> seen_ids, unique |-> unique],
                           articles[idx])
       IN  seen_ids' = st.seen_ids /\ unique' = st.unique
    /\ idx' = idx + 1
    /\ UNCHANGED <<config, feeds, now, fetched_count, all_articles, pc, articles,
                   final, title_words_list, out>>

\* the first loop is over: final = [], title_words_list = []
DedupStartPass2 ==
    /\ pc = "pass1"
    /\ idx > Len(articles)
    /\ final' = <<>>
    /\ title_words_list' = <<>>
    /\ idx' = 1
    /\ pc' = "pass2"
    /\ UNCHANGED <<config, feeds, now, fetched_count, all_articles, articles,
                   seen_ids, unique, out>>

\* second pass, one article
DedupPass2 ==
    /\ pc = "pass2"
    /\ idx <= Len(unique)
    /\ LET st == Pass2Step([final |-> final,
                            title_words_list |-> title_words_list], unique[idx])
       IN  final' = st.final /\ title_words_list' = st.title_words_list
    /\ idx' = idx + 1
    /\ UNCHANGED <<config, feeds, now, fetched_count, all_articles, pc, articles,
                   seen_ids, unique, out>>

\* return final
DedupReturn ==
    /\ pc = "pass2"
    /\ idx > Len(unique)
    /\ pc' = "ret"
    /\ UNCHANGED <<config, feeds, now, fetched_count, all_articles, articles, idx,
                   seen_ids, unique, final, title_words_list, out>>

\* main takes the result and pops "vendors" from every article
StripVendors ==
    /\ pc = "ret"
    /\ all_articles' = [i \in DOMAIN final |-> PopVendors(final[i])]
    /\ pc' = "build"
    /\ UNCHANGED <<config, feeds, now, fetched_count, articles, idx, seen_ids,
                   unique, final, title_words_list, out>>

BuildOutputFiles ==
    /\ pc = "build"
    /\ out' = build_output_files(all_articles, config)
    /\ pc' = "done"
    /\ UNCHANGED <<config, feeds, now, fetched_count, all_articles, articles, idx,
                   seen_ids, unique, final, title_words_list>>

Next ==
    \/ ProcessFeed
    \/ CallDeduplicate
    \/ DedupPass1
    \/ DedupStartPass2
    \/ DedupPass2
    \/ DedupReturn
    \/ StripVendors
    \/ BuildOutputFiles

Spec == Init /\ [][Next]_vars

----------------------------------------------------------------------------
(* deduplicate on its own, applied to any list of scored articles *)

DedupInit ==
    /\ config = FullConfig
    /\ feeds = <<>>
    /\ now = ClockStart
    /\ fetched_count = 0
    /\ all_articles = <<>>
    /\ pc = "pass1"
    /\ \E k \in 0..MaxArticles :
         \E f \in IdPatterns(k) :
           \E ts \in [1..k -> ScoredTitles] : articles = DedupInput(f, ts)
    /\ idx = 1
    /\ seen_ids = <<>>
    /\ unique = <<>>
    /\ final = <<>>
    /\ title_words_list = <<>>
    /\ out = NoOutput

DedupNext == DedupPass1 \/ DedupStartPass2 \/ DedupPass2 \/ DedupReturn

DedupSpec == DedupInit /\ [][DedupNext]_vars

----------------------------------------------------------------------------
(* compute_relevance_score on its own: one article, any configuration *)

ScoreInit ==
    /\ config \in ScoreConfigs
    /\ feeds \in { << <<a>> >> : a \in ScorePool }
    /\ now = ClockStart
    /\ fetched_count = 0
    /\ all_articles = <<>>
    /\ pc = "fetch"
    /\ articles = <<>>
    /\ idx = 1
    /\ seen_ids = <<>>
    /\ unique = <<>>
    /\ final = <<>>
    /\ title_words_list = <<>>
    /\ out = NoOutput

ScoreSpec == ScoreInit /\ [][ProcessFeed]_vars

----------------------------------------------------------------------------
(* Properties *)

\* Jaccard similarity of two token sets strictly above 0.85
JaccardAbove85(A, B) ==
    20 * Cardinality(A \cap B) > 17 * Cardinality(A \cup B)

LongTitle(a) == Cardinality(TitleWords(a.title)) >= 3

NearDuplicates(a, b) ==
    /\ LongTitle(a)
    /\ LongTitle(b)
    /\ JaccardAbove85(TitleWords(a.title), TitleWords(b.title))

AfterPass1 == pc \in {"pass2", "ret"}

\* the input positions holding an article of this id
SameId(aid) == { j \in DOMAIN articles : articles[j].id = aid }

\* the earliest input position, among those of this id, of the maximum score
FirstMax(aid) ==
    CHOOSE j \in SameId(aid) :
        /\ \A k \in SameId(aid) :
              articles[j].relevance_score >= articles[k].relevance_score
        /\ \A k \in SameId(aid) :
              articles[k].relevance_score = articles[j].relevance_score => j <= k

\* the input position at which this id first occurs
FirstSeen(aid) == CHOOSE j \in SameId(aid) : \A k \in SameId(aid) : j <= k

Scores(s) == { s[i].relevance_score : i \in DOMAIN s }

\* C1: deduplicate is idempotent: deduplicating its result again gives the
\* same sequence of articles.
C1_Idempotent == pc = "ret" => Deduplicate(final) = final

\* C2: the result of deduplicate holds no two distinct articles that both
\* have at least 3 title tokens and a Jaccard similarity above 0.85.
C2_NoNearDuplicates ==
    pc = "ret" =>
        \A i, j \in DOMAIN final : i < j => ~NearDuplicates(final[i], final[j])

\* C3: in a full run with fewer than 100 qualifying articles, a surviving
\* article is in the vendor set V iff its source_category is V or V is among
\* the labels classify_vendors gives it.
C3_VendorMembership ==
    (pc = "done" /\ Len(all_articles) < MAX_ARTICLES_PER_OUTPUT) =>
        \A i \in DOMAIN all_articles :
            LET a == all_articles[i]
                labels == Range(classify_vendors(a, config))
            IN  /\ (a \in Range(out.adobe))
                      <=> (a.source_category = "adobe" \/ "adobe" \in labels)
                /\ (a \in Range(out.salesforce))
                      <=> (a.source_category = "salesforce"
                           \/ "salesforce" \in labels)

\* C4: the score compute_relevance_score gives an article is an integer
\* between 10 and 100, whatever the keyword tiers and the timestamp.
C4_ScoreInRange ==
    \A i \in DOMAIN all_articles :
        /\ all_articles[i].relevance_score \in Int
        /\ 10 <= all_articles[i].relevance_score
        /\ all_articles[i].relevance_score <= 100

C4_Witness ==
    /\ fetched_count = 1
    /\ Len(all_articles) = 1
    /\ RawScore(feeds[1][1], config, ClockStart) > 100
    /\ all_articles[1].relevance_score = 100

\* C5: after pass 1 exactly one article of every input id remains, and it is
\* the earliest input article of that id with the maximum score.
C5_Pass1KeepsFirstMax ==
    AfterPass1 =>
        /\ \A u \in DOMAIN unique : SameId(unique[u].id) # {}
        /\ \A i \in DOMAIN articles :
              LET aid == articles[i].id
                  kept == { u \in DOMAIN unique : unique[u].id = aid }
              IN  /\ Cardinality(kept) = 1
                  /\ \A u \in kept : unique[u] = articles[FirstMax(aid)]

C5_Witness ==
    /\ AfterPass1
    /\ \E i, j, k \in DOMAIN articles :
          /\ i < j /\ j < k
          /\ articles[i].id = articles[j].id
          /\ articles[j].id = articles[k].id
          /\ articles[i].relevance_score < articles[j].relevance_score
          /\ articles[j].relevance_score = articles[k].relevance_score
          /\ articles[j] # articles[k]

\* C6: every pass-1 survivor with fewer than 3 distinct title tokens, once
\* pass 2 has taken it, is in the result at every later moment.
C6_ShortTitlesKept ==
    AfterPass1 =>
        \A u \in DOMAIN unique :
            (u < idx /\ ~LongTitle(unique[u])) => unique[u] \in Range(final)

C6_Witness ==
    /\ pc = "ret"
    /\ \E u, v \in DOMAIN unique :
          /\ u < v
          /\ ~LongTitle(unique[u])
          /\ unique[v].title = unique[u].title
          /\ unique[v].relevance_score >= unique[u].relevance_score

\* a sequence is in the order of the sort key: relevance_score descending,
\* then published ascending
InKeyOrder(s) ==
    \A i, j \in DOMAIN s :
        i < j =>
            \/ s[i].relevance_score > s[j].relevance_score
            \/ /\ s[i].relevance_score = s[j].relevance_score
               /\ s[i].published <= s[j].published

\* o is the first MAX_ARTICLES_PER_OUTPUT of the articles in q, in key order
IsCappedRanking(o, q) ==
    /\ Len(o) = Min(Cardinality(q), MAX_ARTICLES_PER_OUTPUT)
    /\ Len(o) <= MAX_ARTICLES_PER_OUTPUT
    /\ Range(o) \subseteq q
    /\ Cardinality(Range(o)) = Len(o)
    /\ InKeyOrder(o)
    /\ \A a \in q \ Range(o) : \A i \in DOMAIN o :
          \/ o[i].relevance_score > a.relevance_score
          \/ /\ o[i].relevance_score = a.relevance_score
             /\ o[i].published <= a.published

QualifiesVendor(a, vendor) ==
    \/ a.source_category = vendor
    \/ "vendors" \in DOMAIN a /\ vendor \in Range(a.vendors)

\* C7: every output set is the first 100 of its qualifying subset in the
\* order relevance_score descending, then published ascending.
C7_OutputsRankedAndCapped ==
    pc = "done" =>
        LET all == Range(all_articles) IN
        /\ IsCappedRanking(out.main, all)
        /\ DOMAIN out.industry = IndustryLabels(config)
        /\ \A l \in DOMAIN out.industry :
              IsCappedRanking(out.industry[l],
                              { a \in all : l \in Range(a.industries) })
        /\ IsCappedRanking(out.adobe,
                           { a \in all : QualifiesVendor(a, "adobe") })
        /\ IsCappedRanking(out.salesforce,
                           { a \in all : QualifiesVendor(a, "salesforce") })

C7_Witness ==
    /\ pc = "done"
    /\ Len(all_articles) > MAX_ARTICLES_PER_OUTPUT
    /\ Len(out.main) = MAX_ARTICLES_PER_OUTPUT
    /\ Len(out.industry["retail"]) = MAX_ARTICLES_PER_OUTPUT
    /\ Cardinality({ i \in DOMAIN all_articles :
                        all_articles[i].source_category = "adobe" })
          > MAX_ARTICLES_PER_OUTPUT
    /\ Len(out.adobe) = MAX_ARTICLES_PER_OUTPUT
    /\ \E i \in DOMAIN out.main :
          /\ i < Len(out.main)
          /\ out.main[i].relevance_score = out.main[i + 1].relevance_score
          /\ out.main[i].published < out.main[i + 1].published

\* C8: pass 2 discards an article, or puts it in the place of a slot's
\* occupant, only when both titles have at least 3 tokens and a Jaccard
\* similarity above 0.85; on equal scores the occupant stays.
C8_MergeOnlyAboveThreshold ==
    [][ (pc = "pass2" /\ idx <= Len(unique) /\ Len(final') = Len(final)) =>
            \E i \in DOMAIN final :
                /\ NearDuplicates(unique[idx], final[i])
                /\ \A j \in DOMAIN final : j # i => final'[j] = final[j]
                /\ \/ final'[i] = final[i]
                   \/ /\ final'[i] = unique[idx]
                      /\ unique[idx].relevance_score > final[i].relevance_score
      ]_vars

C8_Witness ==
    /\ pc = "ret"
    /\ Len(final) < Len(unique)
    /\ \E i, j \in DOMAIN final :
          /\ i < j
          /\ LongTitle(final[i])
          /\ LongTitle(final[j])
          /\ 20 * Cardinality(TitleWords(final[i].title)
                              \cap TitleWords(final[j].title))
             = 17 * Cardinality(TitleWords(final[i].title)
                                \cup TitleWords(final[j].title))

\* C9: the pass-1 survivors are in the order in which their ids first
\* occurred in the input.
C9_FirstSeenOrder ==
    AfterPass1 =>
        \A u, v \in DOMAIN unique :
            u < v => FirstSeen(unique[u].id) < FirstSeen(unique[v].id)

\* C9 as amended: the pass-1 survivors are in the order of the input
\* positions of the surviving articles themselves (an id whose article is
\* replaced by a later, higher-scored duplicate moves to that position).
C9_KeptPositionOrder ==
    AfterPass1 =>
        \A u, v \in DOMAIN unique :
            u < v => FirstMax(unique[u].id) < FirstMax(unique[v].id)

C9_Witness ==
    /\ AfterPass1
    /\ \E i, j, k \in DOMAIN articles :
          /\ i < j /\ j < k
          /\ articles[i].id = articles[k].id
          /\ articles[i].id # articles[j].id
          /\ articles[i].relevance_score < articles[k].relevance_score

\* C10: deduplicate never loses the best score: every input article is
\* matched or outscored by an article of the result taken from the input,
\* and the score held in a pass-2 slot never decreases.
C10_BestScoreKept ==
    /\ [](pc = "ret" =>
            /\ Range(final) \subseteq Range(articles)
            /\ \A i \in DOMAIN articles : \E k \in DOMAIN final :
                  final[k].relevance_score >= articles[i].relevance_score
            /\ (articles # <<>> => final # <<>>))
    /\ [][ pc = "pass2" =>
             \A k \in DOMAIN final :
                 /\ k \in DOMAIN final'
                 /\ final'[k].relevance_score >= final[k].relevance_score ]_vars

C10_Witness ==
    /\ pc = "ret"
    /\ Len(unique) < Len(articles)
    /\ Len(final) < Len(unique)
    /\ \E u \in DOMAIN unique : \E k \in DOMAIN final :
          /\ unique[u] \notin Range(final)
          /\ final[k] # unique[k]

====
